---- MODULE Spec2Model ----
(***************************************************************************)
(* Connection detection and notification dispatch of agentic_graphrag:    *)
(*   agents/connection_detector.py  ConnectionDetectionSystem              *)
(*   agents/notification_manager.py NotificationManager and its channels   *)
(*                                                                         *)
(* Scores and thresholds are Python floats in the source.  Here they are   *)
(* integers in thousandths (0.75 is 750).  A float that the source's       *)
(* arithmetic leaves one ulp below n/1000 (0.7 + 0.1 = 0.7999999999999999) *)
(* is written n - 1, so that comparisons with thresholds that are          *)
(* multiples of 0.001 come out as they do in the source.                   *)
(***************************************************************************)
EXTENDS Integers, Sequences, FiniteSets, TLC

(***************************************************************************)
(* Bounds of the model                                                     *)
(***************************************************************************)
MaxCalls == 2

(***************************************************************************)
(* Python values                                                           *)
(***************************************************************************)
\* None where a string or a list is expected
None == "None"

\* None (JSON null) where a number is expected: option values are integers
\* here, and no threshold of the model is negative
Null == 0 - 1

Range(s) == {s[i] : i \in 1..Len(s)}

Min(a, b) == IF a <= b THEN a ELSE b

RECURSIVE GCD(_, _)
GCD(a, b) == IF b = 0 THEN a ELSE GCD(b, a % b)

(***************************************************************************)
(* Inputs of detect_connections                                            *)
(***************************************************************************)
\* ExtractedFact: the text is kept as the token list str.split() yields.
FactA == [fact |-> <<"Alice", "is", "an", "engineer">>,
          fact_type |-> "person",
          entities |-> <<"Alice">>]

FactB == [fact |-> <<"Alice", "works", "at", "Acme">>,
          fact_type |-> "temporal",
          entities |-> <<"Alice", "Acme">>]

\* A list element that is not an ExtractedFact (a plain dict, say): reading
\* its .fact attribute raises AttributeError.
FactDict == [fact |-> <<"raw">>, fact_type |-> "dict", entities |-> <<>>]

IsExtractedFact(f) == f.fact_type # "dict"

\* new_facts: the empty list, two lists of the same length and different
\* content, and a list holding a malformed element
FactLists == {<<>>, <<FactA, FactB>>, <<FactB, FactB>>, <<FactDict>>}

\* main.py: "Sample existing knowledge from the knowledge graph"
KnowledgeSample ==
    <<"Sample", "existing", "knowledge", "from", "the", "knowledge", "graph">>

\* existing_knowledge
KnowledgeA == <<"alice", "works", "at", "acme", "as", "the", "engineer">>

KnowledgeB == <<"Sample", "existing", "knowledge">>

Knowledge == {KnowledgeA, KnowledgeB}

\* options: None, or a dict written as its items in insertion order.
\* A threshold value is a number or Null.
Opt(k, v) == [key |-> k, val |-> v]

NoOptions == <<Opt(None, Null)>>

OptionDicts ==
    { <<>>,
      <<Opt("threshold", Null)>>,
      <<Opt("max_connections", 1)>>,
      <<Opt("threshold", 750), Opt("max_connections", 1)>>,
      <<Opt("max_connections", 1), Opt("threshold", 750)>> }

\* the options argument: a dict, or None (written NoOptions)
OptionValues == OptionDicts \cup {NoOptions}

\* processing_time: seconds elapsed on the wall clock, whole numbers here
Elapsed == {1, 2}

\* arguments of set_threshold: the two ends of the range, a value inside
\* it, and 1.5, which is outside
ThresholdArgs == {0, 900, 1000, 1500}

\* More facts for the scorers: up to four entities, and a long text
FactC == [fact |-> <<"Bob", "met", "Alice", "at", "Acme">>,
          fact_type |-> "event",
          entities |-> <<"Bob", "Alice", "Acme">>]

FactD == [fact |-> <<"Bob", "and", "Carol", "left", "Acme", "with", "Alice">>,
          fact_type |-> "temporal",
          entities |-> <<"Bob", "Carol", "Acme", "Alice">>]

FactE == [fact |-> <<"The", "graph", "store", "keeps", "facts", "entities", "links",
                     "scores", "alerts", "history">>,
          fact_type |-> "concept",
          entities |-> <<>>]

KnowledgeC == <<"a", "GRAPH", "store", "keeps", "facts", "entities", "links",
                "scores", "alerts", "history", "for", "bob">>

(***************************************************************************)
(* dict helpers                                                            *)
(***************************************************************************)
HasKey(d, k) == \E i \in 1..Len(d) : d[i].key = k

\* dict.get(k, default)
DictGet(d, k, default) ==
    IF HasKey(d, k) THEN (CHOOSE e \in Range(d) : e.key = k).val ELSE default

\* json.dumps(d, sort_keys=True): the items in key order.  The two keys of
\* the option dicts sort as "max_connections" < "threshold".
KeyRank(k) == IF k = "max_connections" THEN 1 ELSE 2

JsonDumpsSorted(d) ==
    LET n == Len(d)
        \* position of item i in the sorted output
        Pos(i) == Cardinality({j \in 1..n : KeyRank(d[j].key) < KeyRank(d[i].key)}) + 1
    IN [p \in 1..n |-> d[CHOOSE i \in 1..n : Pos(i) = p]]

(***************************************************************************)
(* Scoring: ConnectionDetectionSystem._simulate_connection_detection       *)
(***************************************************************************)
\* str.lower() on the tokens of the model's vocabulary
Lower(w) ==
    CASE w = "Alice" -> "alice"
      [] w = "Acme" -> "acme"
      [] w = "Sample" -> "sample"
      [] w = "Bob" -> "bob"
      [] w = "Carol" -> "carol"
      [] w = "The" -> "the"
      [] w = "GRAPH" -> "graph"
      [] OTHER -> w

\* set(text.lower().split())
Words(text) == {Lower(text[i]) : i \in 1..Len(text)}

stop_words ==
    {"the", "a", "an", "and", "or", "but", "in", "on", "at", "to", "for",
     "of", "with", "by", "is", "are", "was", "were"}

\* min(0.7 + k * 0.1, 1.0) in thousandths; the float sums for k = 1 and
\* k = 2 are 0.7999999999999999 and 0.8999999999999999
EntityScoreUncapped(k) == IF k \in {1, 2} THEN 700 + 100 * k - 1 ELSE 700 + 100 * k

EntityScore(k) == IF k \in {1, 2} THEN 700 + 100 * k - 1 ELSE 1000

\* min(0.5 + m * 0.05, 0.9) in thousandths
LexicalScoreUncapped(m) == 500 + 50 * m

LexicalScore(m) == Min(500 + 50 * m, 900)

TemporalScore == 750

\* the pairs (i, j), i < j <= n, in the order of the nested loops
RECURSIVE PairsFrom(_, _, _)
PairsFrom(i, j, n) ==
    IF i >= n THEN <<>>
    ELSE IF j > n THEN PairsFrom(i + 1, i + 2, n)
    ELSE <<(<<i, j>>)>> \o PairsFrom(i, j + 1, n)

\* evidence: each string is a prefix followed by ', '.join over a set,
\* whose order is the set's; it is kept as the prefix, the set, and how
\* many of the set's elements the slice lets through
EntityConnection(fact1, fact2) ==
    LET common_entities == Range(fact1.entities) \cap Range(fact2.entities)
    IN IF common_entities # {}
       THEN << [source_fact |-> fact1.fact,
                target_fact |-> fact2.fact,
                score |-> EntityScore(Cardinality(common_entities)),
                connection_type |-> "factual",
                shared |-> common_entities,
                evidence |-> << [prefix |-> "Both facts mention: ",
                                 joined |-> common_entities,
                                 at_most |-> Cardinality(common_entities)] >>,
                detection_method |-> "entity_overlap"] >>
       ELSE <<>>

RECURSIVE EntityConnections(_, _)
EntityConnections(new_facts, pairs) ==
    IF pairs = <<>> THEN <<>>
    ELSE EntityConnection(new_facts[Head(pairs)[1]], new_facts[Head(pairs)[2]])
         \o EntityConnections(new_facts, Tail(pairs))

KnowledgeConnection(fact, existing_knowledge) ==
    LET common_words == Words(fact.fact) \cap Words(existing_knowledge)
        meaningful_words == common_words \ stop_words
    IN IF Cardinality(meaningful_words) >= 2
       THEN << [source_fact |-> fact.fact,
                target_fact |-> <<"Existing knowledge in the knowledge base">>,
                score |-> LexicalScore(Cardinality(meaningful_words)),
                connection_type |-> "semantic",
                shared |-> meaningful_words,
                evidence |-> << [prefix |-> "Shared concepts: ",
                                 joined |-> meaningful_words,
                                 at_most |-> 5] >>,
                detection_method |-> "semantic_similarity"] >>
       ELSE <<>>

RECURSIVE KnowledgeConnections(_, _)
KnowledgeConnections(new_facts, existing_knowledge) ==
    IF new_facts = <<>> THEN <<>>
    ELSE KnowledgeConnection(Head(new_facts), existing_knowledge)
         \o KnowledgeConnections(Tail(new_facts), existing_knowledge)

IsTemporal(f) == f.fact_type = "temporal"

\* if len(temporal_facts) >= 2
JustTwoTemporal(temporal_facts) == Len(temporal_facts) = 2

EnoughTemporal(temporal_facts) == Len(temporal_facts) >= 2

TemporalConnections(new_facts) ==
    LET temporal_facts == SelectSeq(new_facts, IsTemporal)
    IN IF EnoughTemporal(temporal_facts)
       THEN << [source_fact |-> temporal_facts[1].fact,
                target_fact |-> temporal_facts[2].fact,
                score |-> TemporalScore,
                connection_type |-> "temporal",
                shared |-> {},
                evidence |-> << [prefix |-> "Both facts contain time-related information",
                                 joined |-> {},
                                 at_most |-> 0] >>,
                detection_method |-> "temporal_analysis"] >>
       ELSE <<>>

simulate_connection_detection(new_facts, existing_knowledge) ==
    EntityConnections(new_facts, PairsFrom(1, 2, Len(new_facts)))
    \o KnowledgeConnections(new_facts, existing_knowledge)
    \o TemporalConnections(new_facts)

(***************************************************************************)
(* State                                                                   *)
(***************************************************************************)
VARIABLES
    threshold,         \* ConnectionDetectionSystem.threshold
    connection_cache,  \* ConnectionDetectionSystem.connection_cache
    stats,             \* ConnectionDetectionSystem.stats
    det_call,          \* the last call on the detector and how it ended
    answered,          \* the requests answered "completed" since the cache
                       \* was last cleared, each with the result it got
    computed,          \* the runs that completed scoring so far: how many,
                       \* and their processing times added up
    channels,          \* NotificationManager.channels: the dict's entries in
                       \* insertion order, a removed key leaving a dead entry
    nm_stats,          \* NotificationManager.stats
    notification_history,  \* NotificationManager.notification_history
    send,              \* the send_notification call in flight, or the last one
    nm_calls,          \* how many send_notification calls ended each way
    succeeded,         \* every send so far in which some channel returned true
    nm_threshold,      \* NotificationManager.threshold
    nm_call,           \* the last set_threshold call on the manager
    proc,              \* the process_connections call in flight, or the last one
    wh,                \* one WebhookNotificationChannel and its send_notification
    logfile,           \* one FileNotificationChannel and the files it writes
    scoring,           \* one _simulate_connection_detection run: inputs, result
    kg,                \* the system's KnowledgeGraphAgent
    system,            \* AgenticGraphRAGSystem and its A2A server
    console,           \* one ConsoleNotificationChannel and its last send
    ctor,              \* the threshold arguments the detector and the
                       \* manager were constructed with, where recorded
    pipeline           \* AgenticGraphRAGSystem.process_data: the call in
                       \* flight, or the last one

det_vars == <<threshold, connection_cache, stats, det_call, answered, computed>>

nm_vars == <<channels, nm_stats, notification_history, send, nm_calls, succeeded>>

pc_vars == <<nm_threshold, nm_call, proc>>

ch_vars == <<wh, logfile>>

life_vars == <<kg, system>>

more_vars == <<console, ctor, pipeline>>

ext_vars == <<pc_vars, ch_vars, scoring, life_vars, more_vars>>

vars == <<det_vars, nm_vars, ext_vars>>

(***************************************************************************)
(* ConnectionDetectionSystem                                               *)
(***************************************************************************)
\* config.notifications.threshold
ConfigThreshold == 700

\* options.get("max_connections", 50)
DefaultMaxConnections == 50

\* the threshold argument of the constructors: absent (Null) or a number
CtorThresholdArgs == {Null, 0, 900}

\* threshold or config.notifications.threshold
ThresholdOrConfig(arg) == IF arg = Null \/ arg = 0 THEN ConfigThreshold ELSE arg

\* options or {}
OptionsOrEmpty(options) == IF options = NoOptions \/ options = <<>> THEN <<>> ELSE options

\* 0.0 <= threshold <= 1.0
ThresholdInRangeOpen(t) == 0 < t /\ t < 1000

ThresholdInRange(t) == 0 <= t /\ t <= 1000

\* f"{len(new_facts)}-{hash(existing_knowledge)}-{json.dumps(options, sort_keys=True)}"
\* under md5.  hash and md5 are taken to be collision-free, so the key is
\* written as the triple it encodes.
generate_cache_key(new_facts, existing_knowledge, options) ==
    <<Len(new_facts), existing_knowledge, JsonDumpsSorted(options)>>

\* self.connection_cache[cache_key] = detection_output
CacheStoreSkipped(cache, cache_key, output) == cache

CacheStore(cache, cache_key, output) ==
    [k \in DOMAIN cache \cup {cache_key} |-> IF k = cache_key THEN output ELSE cache[k]]

\* [conn for conn in connections if conn.score.score >= threshold]
HighRelevanceStrict(connections, thr) ==
    LET Above(conn) == conn.score > thr
    IN SelectSeq(connections, Above)

HighRelevance(connections, thr) ==
    LET AtLeast(conn) == conn.score >= thr
    IN SelectSeq(connections, AtLeast)

ConnectionDetectionOutput(connections, high, thr, processing_time, status) ==
    [connections |-> connections,
     total_connections |-> Len(connections),
     high_relevance_connections |-> high,
     threshold_used |-> thr,
     processing_time |-> processing_time,
     status |-> status]

NoOutput == ConnectionDetectionOutput(<<>>, <<>>, 0, 0, "none")

\* average_processing_time is kept exactly, as a fraction in lowest terms
Fraction(num, den) ==
    LET g == GCD(num, den) IN [num |-> num \div g, den |-> den \div g]

\* (average * (total_detections - 1) + processing_time) / total_detections
UpdatedAverage(average, total_detections, processing_time) ==
    Fraction(average.num * (total_detections - 1) + processing_time * average.den,
             average.den * total_detections)

\* One run of detect_connections: how it ends, what it returns, and the
\* cache and statistics it leaves.
detect_connections(new_facts, existing_knowledge, options_arg, elapsed) ==
    LET started == [stats EXCEPT !.total_detections = @ + 1]
        options == OptionsOrEmpty(options_arg)
        thr == DictGet(options, "threshold", threshold)
        max_connections == DictGet(options, "max_connections", DefaultMaxConnections)
        cache_key == generate_cache_key(new_facts, existing_knowledge, options)
        \* the except clause: threshold_used=None fails the output's validation
        Handler ==
            IF thr = Null
            THEN [path |-> "raised", result |-> NoOutput,
                  cache |-> connection_cache, stats |-> started]
            ELSE [path |-> "failed",
                  result |-> ConnectionDetectionOutput(<<>>, <<>>, thr, elapsed, "failed"),
                  cache |-> connection_cache, stats |-> started]
    IN IF cache_key \in DOMAIN connection_cache
       THEN [path |-> "hit", result |-> connection_cache[cache_key],
             cache |-> connection_cache,
             stats |-> [started EXCEPT !.cached_results = @ + 1]]
       ELSE IF \E i \in 1..Len(new_facts) : ~IsExtractedFact(new_facts[i])
       THEN Handler
       ELSE LET connections == simulate_connection_detection(new_facts, existing_knowledge)
            IN IF thr = Null
               THEN Handler
               ELSE LET high == HighRelevance(connections, thr)
                        output == ConnectionDetectionOutput(connections, high, thr,
                                                            elapsed, "completed")
                    IN [path |-> "computed", result |-> output,
                        cache |-> CacheStore(connection_cache, cache_key, output),
                        stats |-> [started EXCEPT
                                     !.connections_found = @ + Len(connections),
                                     !.high_relevance_connections = @ + Len(high),
                                     !.average_processing_time =
                                         UpdatedAverage(@, started.total_detections, elapsed)]]

Request(new_facts, existing_knowledge, options) ==
    [new_facts |-> new_facts, existing_knowledge |-> existing_knowledge, options |-> options]

\* ConnectionDetectionSystem(threshold=arg)
DetInitWith(arg) ==
    /\ threshold = ThresholdOrConfig(arg)
    /\ connection_cache = <<>>
    /\ stats = [total_detections |-> 0, connections_found |-> 0,
                high_relevance_connections |-> 0, cached_results |-> 0,
                average_processing_time |-> [num |-> 0, den |-> 1]]
    /\ det_call = [op |-> "none"]
    /\ answered = {}
    /\ computed = [runs |-> 0, time |-> 0]

DetInit == \E arg \in CtorThresholdArgs : DetInitWith(arg)

\* what one call of detect_connections leaves in the detector
Detect(new_facts, existing_knowledge, options, elapsed) ==
    LET run == detect_connections(new_facts, existing_knowledge, options, elapsed)
        req == Request(new_facts, existing_knowledge, options)
    IN /\ connection_cache' = run.cache
       /\ stats' = run.stats
       /\ det_call' = [op |-> "detect_connections",
                       req |-> req,
                       before |-> stats,
                       threshold |-> threshold,
                       path |-> run.path,
                       result |-> run.result,
                       earlier |-> {a.result : a \in {b \in answered : b.req = req}}]
       /\ answered' = IF run.path # "raised" /\ run.result.status = "completed"
                      THEN answered \cup {[req |-> req, result |-> run.result]}
                      ELSE answered
       /\ computed' = IF run.path = "computed"
                      THEN [runs |-> computed.runs + 1,
                            time |-> computed.time + elapsed]
                      ELSE computed
       /\ UNCHANGED threshold

DetectConnections ==
    /\ stats.total_detections < MaxCalls
    /\ \E new_facts \in FactLists, existing_knowledge \in Knowledge,
          options \in OptionValues, elapsed \in Elapsed :
          Detect(new_facts, existing_knowledge, options, elapsed)
    /\ UNCHANGED <<nm_vars, ext_vars>>

ClearCache ==
    /\ connection_cache' = <<>>
    /\ answered' = {}
    /\ det_call' = [op |-> "clear_cache"]
    /\ UNCHANGED <<threshold, stats, computed, nm_vars, ext_vars>>

SetThreshold ==
    \E t \in ThresholdArgs :
        /\ IF ThresholdInRange(t)
           THEN /\ threshold' = t
                /\ det_call' = [op |-> "set_threshold", arg |-> t, path |-> "returned"]
           ELSE /\ threshold' = threshold
                /\ det_call' = [op |-> "set_threshold", arg |-> t, path |-> "raised"]
        /\ UNCHANGED <<connection_cache, stats, answered, computed, nm_vars, ext_vars>>

DetNext == DetectConnections \/ ClearCache \/ SetThreshold

(***************************************************************************)
(* NotificationManager: the channel registry                               *)
(***************************************************************************)
MaxSends == 2

\* The registry's dict keeps at most this many entries, dead ones included
\* (CPython compacts the entries only when it resizes the dict, past five).
MaxEntries == 3

\* The sends of a long run (more than the history keeps); the run ends once
\* this many of its sends have failed on every channel
MaxLongSends == 103

MaxFailedSends == 2

Events == {"e1"}

\* A channel is known by its name; the name decides how it delivers.
\* "custom" is a channel object registered through add_channel.
ChannelNames == {"console", "file", "webhook", "custom"}

\* config.notifications.channels, and whether a webhook URL is configured
ConfigChannelSets == SUBSET {"console", "file", "webhook"}

Deleted == "<deleted>"

\* _initialize_default_channels
initialize_default_channels(enabled_channels) ==
    (IF "console" \in enabled_channels THEN <<"console">> ELSE <<>>)
    \o (IF "file" \in enabled_channels THEN <<"file">> ELSE <<>>)
    \o (IF "webhook" \in enabled_channels THEN <<"webhook">> ELSE <<>>)

Live(entries) == {i \in 1..Len(entries) : entries[i] # Deleted}

LiveNames(entries) == {entries[i] : i \in Live(entries)}

\* the keys in iteration order
Keys(entries) ==
    LET IsLive(n) == n # Deleted IN SelectSeq(entries, IsLive)

\* self.channels[name] = channel: a new key takes a new entry at the end
DictSet(entries, name) ==
    IF name \in LiveNames(entries) THEN entries ELSE Append(entries, name)

\* del self.channels[name]: the entry stays in place, dead
DictDel(entries, name) ==
    [i \in 1..Len(entries) |-> IF entries[i] = name THEN Deleted ELSE entries[i]]

\* iter(self.channels.items()): the next entry to look at, the dict's size
\* when the iterator was made, and the number of items still expected
NewIter(entries) ==
    [pos |-> 1, used |-> Cardinality(Live(entries)), len |-> Cardinality(Live(entries))]

\* next() on the dict iterator
IterStep(entries, it) ==
    LET rest == {i \in Live(entries) : i >= it.pos}
    IN IF it.used # Cardinality(Live(entries))
       THEN [kind |-> "RuntimeError"]      \* dictionary changed size during iteration
       ELSE IF rest = {}
       THEN [kind |-> "StopIteration"]
       ELSE IF it.len = 0
       THEN [kind |-> "RuntimeError"]      \* dictionary keys changed during iteration
       ELSE LET i == CHOOSE m \in rest : \A o \in rest : m <= o
            IN [kind |-> "item", name |-> entries[i],
                it |-> [it EXCEPT !.pos = i + 1, !.len = @ - 1]]

(***************************************************************************)
(* NotificationManager.send_notification                                   *)
(***************************************************************************)
\* WebhookNotificationChannel(retries=3)
WebhookRetries == 3

\* what one POST yields: a status code, or httpx.RequestError
PostOutcomes == {"200", "204", "500", "RequestError"}

\* len(self.notification_history) > 100
HistoryLimit == 100

IdleSend ==
    [pc |-> "idle", outcome |-> "none", event |-> "none", it |-> NewIter(<<>>),
     success_count |-> 0, total_channels |-> 0, cur |-> "none", attempt |-> 0,
     phase |-> "none", log |-> <<>>, at_start |-> <<>>, mutated |-> FALSE,
     before |-> [notifications_sent |-> 0, notifications_failed |-> 0]]

\* return success_count > 0
SendResultAllChannels(success_count, total_channels) == success_count = total_channels

SendResult(success_count, total_channels) == success_count > 0

\* where the loop goes once a channel's send has returned or raised: the
\* try/except inside the loop body absorbs the exception
AfterDeliveryStopOnRaise(result) == IF result = "raised" THEN "finish" ELSE "iter"

AfterDelivery(result) == "iter"

Ended(outcome) ==
    [send EXCEPT !.pc = "idle", !.outcome = outcome, !.cur = "none", !.phase = "none"]

Count(outcome) == [nm_calls EXCEPT ![outcome] = @ + 1]

\* NotificationManager(threshold=None) under a configuration
NMInitWith(enabled_channels) ==
    /\ channels = initialize_default_channels(enabled_channels)
    /\ nm_stats = [notifications_sent |-> 0, notifications_failed |-> 0]
    /\ notification_history = <<>>
    /\ send = IdleSend
    /\ nm_calls = [true |-> 0, false |-> 0, raised |-> 0]
    /\ succeeded = <<>>

NMInit == \E enabled_channels \in ConfigChannelSets : NMInitWith(enabled_channels)

\* send_notification(event) is entered: an empty registry ends it at once,
\* otherwise the loop over self.channels.items() begins
BeginSend(event) ==
    LET called == [IdleSend EXCEPT !.event = event, !.at_start = Keys(channels),
                                   !.before = nm_stats]
    IN IF LiveNames(channels) = {}
       THEN /\ send' = [called EXCEPT !.outcome = "false"]
            /\ nm_calls' = Count("false")
       ELSE /\ send' = [called EXCEPT !.pc = "iter",
                                      !.it = NewIter(channels),
                                      !.total_channels = Cardinality(Live(channels))]
            /\ nm_calls' = nm_calls

\* send_notification is called
SendStart ==
    /\ send.pc = "idle"
    /\ nm_calls.true + nm_calls.false + nm_calls.raised < MaxSends
    /\ \E event \in Events : BeginSend(event)
    /\ UNCHANGED <<channels, nm_stats, notification_history, succeeded, det_vars, ext_vars>>

\* the for statement asks the iterator for the next channel
IterNext ==
    /\ send.pc = "iter"
    /\ LET step == IterStep(channels, send.it)
       IN IF step.kind = "item"
          THEN /\ send' = [send EXCEPT !.pc = "deliver", !.cur = step.name, !.it = step.it,
                                       !.attempt = 0, !.phase = "send"]
               /\ nm_calls' = nm_calls
          ELSE IF step.kind = "StopIteration"
          THEN /\ send' = [send EXCEPT !.pc = "finish"]
               /\ nm_calls' = nm_calls
          ELSE /\ send' = Ended("raised")
               /\ nm_calls' = Count("raised")
    /\ UNCHANGED <<channels, nm_stats, notification_history, succeeded, det_vars, ext_vars>>

\* the awaited channel.send_notification(event) is over
EndDelivery(result) ==
    /\ send' = [send EXCEPT !.pc = AfterDelivery(result),
                            !.log = Append(@, [channel |-> send.cur, result |-> result]),
                            !.success_count = IF result = "true" THEN @ + 1 ELSE @,
                            !.cur = "none", !.phase = "none"]
    /\ UNCHANGED <<channels, nm_stats, notification_history, nm_calls, succeeded, det_vars, ext_vars>>

\* ConsoleNotificationChannel.send_notification: prints, False if that fails
ConsoleDeliver ==
    /\ send.pc = "deliver" /\ send.cur = "console"
    /\ \E result \in {"true", "false"} : EndDelivery(result)

\* FileNotificationChannel.send_notification: True once the line is appended,
\* False if that fails (the log file itself is not part of this state)
FileDeliver ==
    /\ send.pc = "deliver" /\ send.cur = "file"
    /\ \E result \in {"true", "false"} : EndDelivery(result)

\* a channel registered by add_channel: any NotificationChannel, which may
\* return either boolean or raise
CustomDeliver ==
    /\ send.pc = "deliver" /\ send.cur = "custom"
    /\ \E result \in {"true", "false", "raised"} : EndDelivery(result)

\* WebhookNotificationChannel.send_notification: one POST of the retry loop
WebhookPost ==
    /\ send.pc = "deliver" /\ send.cur = "webhook" /\ send.phase = "send"
    /\ \E response \in PostOutcomes :
          IF response \in {"200", "201", "202"}
          THEN EndDelivery("true")
          ELSE IF response = "RequestError"
          THEN IF send.attempt = WebhookRetries - 1
               THEN EndDelivery("false")         \* re-raised, caught, False
               ELSE /\ send' = [send EXCEPT !.phase = "backoff"]
                    /\ UNCHANGED <<channels, nm_stats, notification_history, nm_calls, succeeded, det_vars, ext_vars>>
          ELSE IF send.attempt + 1 < WebhookRetries
               THEN /\ send' = [send EXCEPT !.attempt = @ + 1]
                    /\ UNCHANGED <<channels, nm_stats, notification_history, nm_calls, succeeded, det_vars, ext_vars>>
               ELSE EndDelivery("false")

\* asyncio.sleep(2 ** attempt) is over
WebhookWake ==
    /\ send.pc = "deliver" /\ send.cur = "webhook" /\ send.phase = "backoff"
    /\ send' = [send EXCEPT !.attempt = @ + 1, !.phase = "send"]
    /\ UNCHANGED <<channels, nm_stats, notification_history, nm_calls, succeeded, det_vars, ext_vars>>

\* event.timestamp: the events of successive sends are made at successive
\* times, written as the number of the send
Timestamp == nm_calls.true + nm_calls.false + nm_calls.raised + 1

\* if len(self.notification_history) > 100: self.notification_history.pop(0)
KeepNewest(history) == SubSeq(history, 1, Min(Len(history), HistoryLimit))

KeepLast(history) == IF Len(history) > HistoryLimit THEN Tail(history) ELSE history

\* after the loop: statistics, history, return
SendFinish ==
    /\ send.pc = "finish"
    /\ IF send.success_count > 0
       THEN /\ nm_stats' = [nm_stats EXCEPT !.notifications_sent = @ + 1]
            /\ notification_history' =
                   KeepLast(Append(notification_history,
                                   [timestamp |-> Timestamp,
                                    event |-> send.event,
                                    channels_sent |-> send.success_count,
                                    total_channels |-> send.total_channels]))
       ELSE /\ nm_stats' = [nm_stats EXCEPT !.notifications_failed = @ + 1]
            /\ notification_history' = notification_history
    /\ succeeded' =
           IF \E i \in 1..Len(send.log) : send.log[i].result = "true"
           THEN Append(succeeded,
                       [timestamp |-> Timestamp,
                        successes |-> Cardinality({i \in 1..Len(send.log) :
                                                     send.log[i].result = "true"}),
                        registered |-> Len(send.at_start)])
           ELSE succeeded
    /\ LET outcome == IF SendResult(send.success_count, send.total_channels)
                      THEN "true" ELSE "false"
       IN /\ send' = Ended(outcome)
          /\ nm_calls' = Count(outcome)
    /\ UNCHANGED <<channels, det_vars, ext_vars>>

\* Sends in a long run: as SendStart, with the run's own bounds
SendStartLong ==
    /\ send.pc = "idle"
    /\ nm_calls.true + nm_calls.false + nm_calls.raised < MaxLongSends
    /\ nm_calls.false < MaxFailedSends
    /\ \E event \in Events : BeginSend(event)
    /\ UNCHANGED <<channels, nm_stats, notification_history, succeeded, det_vars, ext_vars>>

\* A send in flight is suspended, so that other tasks run, only inside a
\* channel's delivery that awaits: the console channel never does.
Suspended == send.pc = "deliver" /\ send.cur # "console"

\* What a call on the registry leaves of the send record: it marks a send in
\* flight, and ends the record of a send that is over.
Touched == IF send.pc = "idle" THEN IdleSend ELSE [send EXCEPT !.mutated = TRUE]

\* add_channel(name, channel).  With no send in flight there is no iterator
\* to see the dict's dead entries, and they are dropped from the state.
add_channel(name) ==
    /\ name \in LiveNames(channels) \/ Len(channels) < MaxEntries
    /\ channels' = IF send.pc = "idle" THEN Keys(DictSet(channels, name))
                   ELSE DictSet(channels, name)
    /\ send' = Touched
    /\ UNCHANGED <<nm_stats, notification_history, nm_calls, succeeded, det_vars, ext_vars>>

\* remove_channel(name)
remove_channel(name) ==
    /\ channels' = IF name \notin LiveNames(channels) THEN channels
                   ELSE IF send.pc = "idle" THEN Keys(DictDel(channels, name))
                   ELSE DictDel(channels, name)
    /\ send' = Touched
    /\ UNCHANGED <<nm_stats, notification_history, nm_calls, succeeded, det_vars, ext_vars>>

AddChannel == send.pc = "idle" /\ \E name \in ChannelNames : add_channel(name)

RemoveChannel == send.pc = "idle" /\ \E name \in ChannelNames : remove_channel(name)

\* the same calls made by another task while the send is suspended
AddChannelDuringSend == Suspended /\ \E name \in ChannelNames : add_channel(name)

RemoveChannelDuringSend == Suspended /\ \E name \in ChannelNames : remove_channel(name)

(***************************************************************************)
(* NotificationManager.set_threshold and process_connections               *)
(***************************************************************************)
MaxProcessCalls == 1

\* the connections handed to process_connections: detection results
ConnectionLists ==
    { <<>>,
      simulate_connection_detection(<<FactA, FactB>>, KnowledgeA),
      simulate_connection_detection(<<FactB, FactB>>, KnowledgeB),
      simulate_connection_detection(<<FactC, FactC>>, KnowledgeB) }

\* a key the returned dict does not hold
Absent == 0 - 2

IdleProc ==
    [pc |-> "idle", calls_made |-> 0, connections |-> <<>>, threshold |-> 0,
     high_relevance |-> <<>>, next |-> 1, notifications_sent |-> 0,
     sends |-> <<>>, result |-> [status |-> "none"]]

\* NotificationManager(threshold=arg): the fields the constructor sets
\* beside the registry, the statistics and the history
ManagerInitWith(arg) ==
    /\ nm_threshold = ThresholdOrConfig(arg)
    /\ nm_call = [op |-> "none"]
    /\ proc = IdleProc

ManagerInit == \E arg \in CtorThresholdArgs : ManagerInitWith(arg)

\* set_threshold(threshold) on the manager
ManagerSetThreshold ==
    /\ send.pc = "idle" \/ Suspended
    /\ \E t \in ThresholdArgs :
          IF ThresholdInRange(t)
          THEN /\ nm_threshold' = t
               /\ nm_call' = [op |-> "set_threshold", arg |-> t, path |-> "returned"]
          ELSE /\ nm_threshold' = nm_threshold
               /\ nm_call' = [op |-> "set_threshold", arg |-> t, path |-> "raised"]
    /\ UNCHANGED <<proc, det_vars, nm_vars, ch_vars, scoring, life_vars, more_vars>>

\* _create_connection_event: the severity from the score
Severity(score) ==
    IF score >= 900 THEN "critical"
    ELSE IF score >= 800 THEN "warning"
    ELSE "info"

create_connection_event(connection) ==
    [event_type |-> "high_relevance_connection",
     severity |-> Severity(connection.score),
     data |-> connection]

\* process_connections(connections) up to its first await: the filter, the
\* early return when nothing passes it
process_connections(connections) ==
    LET high_relevance == HighRelevance(connections, nm_threshold)
        called == [IdleProc EXCEPT !.calls_made = proc.calls_made + 1,
                                   !.connections = connections,
                                   !.threshold = nm_threshold,
                                   !.high_relevance = high_relevance]
    IN IF high_relevance = <<>>
       THEN [called EXCEPT !.result =
                [status |-> "no_notifications",
                 connections_processed |-> Len(connections),
                 high_relevance_connections |-> Absent,
                 notifications_sent |-> 0]]
       ELSE [called EXCEPT !.pc = "loop"]

ProcessConnections ==
    /\ proc.pc = "idle" /\ send.pc = "idle"
    /\ proc.calls_made < MaxProcessCalls
    /\ \E connections \in ConnectionLists : proc' = process_connections(connections)
    /\ UNCHANGED <<nm_threshold, nm_call, det_vars, nm_vars, ch_vars, scoring, life_vars, more_vars>>

\* the loop body: the event is made and send_notification(event) entered
ProcessSend ==
    /\ proc.pc = "loop" /\ proc.next <= Len(proc.high_relevance)
    /\ send.pc = "idle"
    /\ BeginSend(create_connection_event(proc.high_relevance[proc.next]))
    /\ proc' = [proc EXCEPT !.pc = "await"]
    /\ UNCHANGED <<channels, nm_stats, notification_history, succeeded,
                   nm_threshold, nm_call, det_vars, ch_vars, scoring, life_vars, more_vars>>

\* the awaited send_notification is over: its result is counted, or the
\* exception it raised takes process_connections to its except clause
ProcessResume ==
    /\ proc.pc = "await" /\ send.pc = "idle"
    /\ LET sent == [event |-> send.event, result |-> send.outcome]
       IN proc' =
            IF send.outcome = "raised"
            THEN [proc EXCEPT !.pc = "idle",
                              !.sends = Append(@, sent),
                              !.result =
                                  [status |-> "error",
                                   connections_processed |-> Len(proc.connections),
                                   high_relevance_connections |-> Absent,
                                   notifications_sent |-> 0]]
            ELSE [proc EXCEPT !.pc = "loop",
                              !.next = @ + 1,
                              !.sends = Append(@, sent),
                              !.notifications_sent =
                                  IF send.outcome = "true" THEN @ + 1 ELSE @]
    /\ UNCHANGED <<nm_threshold, nm_call, det_vars, nm_vars, ch_vars, scoring, life_vars, more_vars>>

\* the loop is over: the result is returned
ProcessReturn ==
    /\ proc.pc = "loop" /\ proc.next > Len(proc.high_relevance)
    /\ proc' = [proc EXCEPT !.pc = "idle",
                            !.result =
                                [status |-> "notifications_sent",
                                 connections_processed |-> Len(proc.connections),
                                 high_relevance_connections |-> Len(proc.high_relevance),
                                 notifications_sent |-> proc.notifications_sent]]
    /\ UNCHANGED <<nm_threshold, nm_call, det_vars, nm_vars, ch_vars, scoring, life_vars, more_vars>>

(***************************************************************************)
(* WebhookNotificationChannel.send_notification, on a channel of its own   *)
(***************************************************************************)
MaxRetries == 4

\* WebhookNotificationChannel(url, retries=r)
RetryCounts == 0..MaxRetries

RECURSIVE Pow2(_)
Pow2(n) == IF n = 0 THEN 1 ELSE 2 * Pow2(n - 1)

\* if attempt == self.retries - 1: raise
LastAttemptLate(attempt, retries) == attempt = retries

LastAttempt(attempt, retries) == attempt = retries - 1

\* what the channel did, in order: a POST and what it yielded, or a sleep
\* and its length in seconds
Posted(attempt, response) ==
    [kind |-> "post", attempt |-> attempt, response |-> response, seconds |-> 0]

Slept(attempt) ==
    [kind |-> "sleep", attempt |-> attempt, response |-> "none", seconds |-> Pow2(attempt)]

\* response.status_code in [200, 201, 202]
Accepted(response) == response \in {"200", "201", "202"}

\* health is the last test_connection: the response it got and its result
WebhookChannel(retries) ==
    [pc |-> "idle", retries |-> retries, attempt |-> 0, trace |-> <<>>, result |-> "none",
     health |-> [response |-> "none", result |-> "none"]]

WebhookIdle == wh = WebhookChannel(WebhookRetries)

WebhookInit == \E retries \in RetryCounts : wh = WebhookChannel(retries)

\* send_notification(event) is entered; range(self.retries) may be empty
WebhookSend ==
    /\ wh.pc = "idle"
    /\ wh' = IF wh.retries > 0
             THEN [wh EXCEPT !.pc = "post"]
             ELSE [wh EXCEPT !.pc = "done", !.result = "false"]
    /\ UNCHANGED <<logfile, det_vars, nm_vars, pc_vars, scoring, life_vars, more_vars>>

\* one pass of the retry loop up to its end or its sleep
WebhookAttempt ==
    /\ wh.pc = "post"
    /\ \E response \in PostOutcomes :
          LET posted == [wh EXCEPT !.trace = Append(@, Posted(wh.attempt, response))]
          IN wh' =
               IF Accepted(response)
               THEN [posted EXCEPT !.pc = "done", !.result = "true"]
               ELSE IF response = "RequestError"
               THEN IF LastAttempt(wh.attempt, wh.retries)
                    THEN [posted EXCEPT !.pc = "done", !.result = "false"]
                    ELSE [posted EXCEPT !.pc = "sleep",
                                        !.trace = Append(@, Slept(wh.attempt))]
               ELSE IF wh.attempt + 1 < wh.retries
                    THEN [posted EXCEPT !.attempt = @ + 1]
                    ELSE [posted EXCEPT !.pc = "done", !.result = "false"]
    /\ UNCHANGED <<logfile, det_vars, nm_vars, pc_vars, scoring, life_vars, more_vars>>

\* asyncio.sleep(2 ** attempt) is over
WebhookBackoffOver ==
    /\ wh.pc = "sleep"
    /\ wh' = [wh EXCEPT !.pc = "post", !.attempt = @ + 1]
    /\ UNCHANGED <<logfile, det_vars, nm_vars, pc_vars, scoring, life_vars, more_vars>>

WebhookNext == WebhookSend \/ WebhookAttempt \/ WebhookBackoffOver

\* test_connection(): one POST; an exception is logged and gives False
WebhookTestConnection ==
    /\ \E response \in PostOutcomes :
          wh' = [wh EXCEPT !.health = [response |-> response,
                                       result |-> IF Accepted(response) THEN "true"
                                                  ELSE "false"]]
    /\ UNCHANGED <<logfile, det_vars, nm_vars, pc_vars, scoring, life_vars, more_vars>>

(***************************************************************************)
(* FileNotificationChannel, on a channel of its own                        *)
(***************************************************************************)
MaxFileSends == 4

\* max_size_bytes, and the length of one JSON line, in the same unit
FileCeilings == {1, 2, 3}

RecordSizes == {1, 2}

\* seconds the wall clock moves on between two sends
Ticks == {0, 1}

RECURSIVE SumSeq(_)
SumSeq(s) == IF s = <<>> THEN 0 ELSE Head(s) + SumSeq(Tail(s))

\* The active file is the list of its records' sizes.  A backup is a file
\* named after the second it was made in (strftime('%Y%m%d_%H%M%S')).
\* accepted counts the sends that returned True.
FileChannel(max_size_bytes) ==
    [max_size_bytes |-> max_size_bytes, exists |-> FALSE, active |-> <<>>,
     backups |-> <<>>, sends |-> 0, clock |-> 0, accepted |-> 0,
     last |-> [size_before |-> 0, size |-> 0, rotation |-> "none",
               overwrote |-> FALSE, write_failed |-> FALSE, result |-> "none"]]

LogfileIdle == logfile = FileChannel(10)

LogfileInit == \E max_size_bytes \in FileCeilings : logfile = FileChannel(max_size_bytes)

\* self.file_path.exists() and self.file_path.stat().st_size > self.max_size_bytes
RotationDue(file) == file.exists /\ SumSeq(file.active) > file.max_size_bytes

\* backup_path = self.file_path.with_suffix(f".{now:%Y%m%d_%H%M%S}.log")
BackupPath(now) == now

HasBackup(file, name) == \E i \in 1..Len(file.backups) : file.backups[i].name = name

\* self.file_path.rename(backup_path) when it does not raise: the file takes
\* the name, and a file that had the name is replaced
Rename(file, name) ==
    LET Other(b) == b.name # name
    IN [file EXCEPT !.exists = FALSE, !.active = <<>>,
                    !.backups = Append(SelectSeq(@, Other),
                                       [name |-> name, records |-> file.active])]

\* _rotate_if_needed(): what the rename raises is logged and dropped
rotate_if_needed(file, now, rename_fails) ==
    IF ~RotationDue(file)
    THEN [file |-> file, rotation |-> "none", overwrote |-> FALSE]
    ELSE IF rename_fails
    THEN [file |-> file, rotation |-> "failed", overwrote |-> FALSE]
    ELSE [file |-> Rename(file, BackupPath(now)), rotation |-> "done",
          overwrote |-> HasBackup(file, BackupPath(now))]

\* await self._rotate_if_needed() returns whatever the rotation did, so the
\* write is always reached
WriteReachedUnlessRotationFailed(rotation) == rotation # "failed"

WriteReached(rotation) == TRUE

\* send_notification(event): _rotate_if_needed, then the line is appended.
\* The rename may fail (logged, swallowed) and so may the write (False).
file_send_notification(file, size, now, rename_fails, write_fails) ==
    LET rotated == rotate_if_needed(file, now, rename_fails)
        kept == rotated.file
        ok == WriteReached(rotated.rotation) /\ ~write_fails
        written == IF ok
                   THEN [kept EXCEPT !.exists = TRUE, !.active = Append(@, size),
                                     !.accepted = @ + 1]
                   ELSE kept
    IN [written EXCEPT
          !.sends = @ + 1,
          !.clock = now,
          !.last = [size_before |-> IF file.exists THEN SumSeq(file.active) ELSE 0,
                    size |-> size,
                    rotation |-> rotated.rotation,
                    overwrote |-> rotated.overwrote,
                    write_failed |-> write_fails,
                    result |-> IF ok THEN "true" ELSE "false"]]

FileSend ==
    /\ logfile.sends < MaxFileSends
    /\ \E size \in RecordSizes, tick \in Ticks,
          rename_fails \in BOOLEAN, write_fails \in BOOLEAN :
          logfile' = file_send_notification(logfile, size, logfile.clock + tick,
                                            rename_fails, write_fails)
    /\ UNCHANGED <<wh, console, det_vars, nm_vars, pc_vars, scoring, life_vars,
                   ctor, pipeline>>

(***************************************************************************)
(* ConsoleNotificationChannel, on a channel of its own                     *)
(***************************************************************************)
\* the steps of send_notification that may raise, in order
ConsoleSteps == <<"strftime", "print", "json.dumps">>

ConsoleChannel == [last |-> [fails_at |-> "none", result |-> "none"]]

ConsoleIdle == console = ConsoleChannel

\* send_notification(event): any exception of the body is logged and the
\* channel returns False
ConsoleSend ==
    /\ \E fails_at \in Range(ConsoleSteps) \cup {"none"} :
          console' = [console EXCEPT
                         !.last = [fails_at |-> fails_at,
                                   result |-> IF fails_at = "none" THEN "true"
                                              ELSE "false"]]
    /\ UNCHANGED <<wh, logfile, det_vars, nm_vars, pc_vars, scoring, life_vars,
                   ctor, pipeline>>

(***************************************************************************)
(* _simulate_connection_detection on inputs of its own                     *)
(***************************************************************************)
MaxFacts == 3

ScoringFacts == {FactA, FactB, FactC, FactD, FactE}

ScoringFactLists == UNION {[1..n -> ScoringFacts] : n \in 0..MaxFacts}

ScoringKnowledge == {KnowledgeA, KnowledgeB, KnowledgeC}

ScoringOf(new_facts, existing_knowledge) ==
    [new_facts |-> new_facts, existing_knowledge |-> existing_knowledge,
     connections |-> <<>>, done |-> FALSE]

ScoringIdle == scoring = ScoringOf(<<>>, <<>>)

ScoringInit ==
    \E new_facts \in ScoringFactLists, existing_knowledge \in ScoringKnowledge :
        scoring = ScoringOf(new_facts, existing_knowledge)

Score ==
    /\ ~scoring.done
    /\ scoring' = [scoring EXCEPT
                      !.connections = simulate_connection_detection(scoring.new_facts,
                                                                    scoring.existing_knowledge),
                      !.done = TRUE]
    /\ UNCHANGED <<det_vars, nm_vars, pc_vars, ch_vars, life_vars, more_vars>>

(***************************************************************************)
(* KnowledgeGraphAgent: initialize, the three requests, cleanup            *)
(***************************************************************************)
MaxAgentCalls == 3

MaxSystemCalls == 2

\* the steps of initialize, in order; each sets the field of its name
InitSteps == <<"toolset", "agent", "session_service", "session", "runner">>

StepIndex(step) == CHOOSE i \in 1..Len(InitSteps) : InitSteps[i] = step

\* a call on the agent, as kept in its record: what was called, how it
\* ended, and the flag and statistics it found
AgentCall(agent, op, path) ==
    [op |-> op, path |-> path,
     initialized |-> agent.initialized, processing_stats |-> agent.processing_stats]

\* KnowledgeGraphAgent()
NewAgent ==
    [toolset |-> None, agent |-> None, session_service |-> None, session |-> None,
     runner |-> None, initialized |-> FALSE, closes |-> 0, calls |-> 0,
     processing_stats |-> [requests_processed |-> 0, data_items_processed |-> 0,
                           searches_performed |-> 0, connections_detected |-> 0],
     last |-> [op |-> "none", path |-> "none", initialized |-> FALSE,
               processing_stats |-> [requests_processed |-> 0, data_items_processed |-> 0,
                                     searches_performed |-> 0, connections_detected |-> 0]]]

\* initialize(), the step named fail_at raising ("none": no step raises).
\* The fields assigned before the failing step keep their new values, and
\* the except clause re-raises without touching self.initialized.
kg_initialize(agent, fail_at) ==
    LET reached == IF fail_at = "none" THEN Len(InitSteps) ELSE StepIndex(fail_at) - 1
        Assigned(step) == StepIndex(step) <= reached
    IN [agent EXCEPT
          !.toolset = IF Assigned("toolset") THEN "set" ELSE @,
          !.agent = IF Assigned("agent") THEN "set" ELSE @,
          !.session_service = IF Assigned("session_service") THEN "set" ELSE @,
          !.session = IF Assigned("session") THEN "set" ELSE @,
          !.runner = IF Assigned("runner") THEN "set" ELSE @,
          !.initialized = IF fail_at = "none" THEN TRUE ELSE @,
          !.last = AgentCall(agent, "initialize",
                             IF fail_at = "none" THEN "returned" ELSE "raised")]

\* cleanup(): toolset.close() is awaited if there is a toolset, what it
\* raises is logged and dropped
kg_cleanup(agent) ==
    [agent EXCEPT
       !.closes = IF agent.toolset # None THEN @ + 1 ELSE @,
       !.initialized = FALSE,
       !.last = AgentCall(agent, "cleanup", "returned")]

\* process_data(request_data): body_fails is an exception inside the try,
\* connections_found what the agent's answer reports
kg_process_data(agent, body_fails, connections_found) ==
    IF ~agent.initialized
    THEN [agent EXCEPT !.last = AgentCall(agent, "process_data", "raised")]
    ELSE [agent EXCEPT
            !.processing_stats =
                IF body_fails
                THEN [@ EXCEPT !.requests_processed = @ + 1]
                ELSE [@ EXCEPT !.requests_processed = @ + 1,
                               !.data_items_processed = @ + 1,
                               !.connections_detected = @ + connections_found],
            !.last = AgentCall(agent, "process_data", "returned")]

\* search_knowledge(request_data)
kg_search_knowledge(agent) ==
    IF ~agent.initialized
    THEN [agent EXCEPT !.last = AgentCall(agent, "search_knowledge", "raised")]
    ELSE [agent EXCEPT
            !.processing_stats = [@ EXCEPT !.searches_performed = @ + 1],
            !.last = AgentCall(agent, "search_knowledge", "returned")]

\* list_knowledge_data()
kg_list_knowledge_data(agent) ==
    IF ~agent.initialized
    THEN [agent EXCEPT !.last = AgentCall(agent, "list_knowledge_data", "raised")]
    ELSE [agent EXCEPT !.last = AgentCall(agent, "list_knowledge_data", "returned")]

Called(agent) == [agent EXCEPT !.calls = @ + 1]

KGInitialize ==
    /\ kg.calls < MaxAgentCalls
    /\ \E fail_at \in Range(InitSteps) \cup {"none"} :
          kg' = Called(kg_initialize(kg, fail_at))
    /\ UNCHANGED <<system, det_vars, nm_vars, pc_vars, ch_vars, scoring, more_vars>>

KGCleanup ==
    /\ kg.calls < MaxAgentCalls
    /\ kg' = Called(kg_cleanup(kg))
    /\ UNCHANGED <<system, det_vars, nm_vars, pc_vars, ch_vars, scoring, more_vars>>

KGProcessData ==
    /\ kg.calls < MaxAgentCalls
    /\ \E body_fails \in BOOLEAN, connections_found \in {0, 2} :
          kg' = Called(kg_process_data(kg, body_fails, connections_found))
    /\ UNCHANGED <<system, det_vars, nm_vars, pc_vars, ch_vars, scoring, more_vars>>

KGSearchKnowledge ==
    /\ kg.calls < MaxAgentCalls
    /\ kg' = Called(kg_search_knowledge(kg))
    /\ UNCHANGED <<system, det_vars, nm_vars, pc_vars, ch_vars, scoring, more_vars>>

KGListKnowledgeData ==
    /\ kg.calls < MaxAgentCalls
    /\ kg' = Called(kg_list_knowledge_data(kg))
    /\ UNCHANGED <<system, det_vars, nm_vars, pc_vars, ch_vars, scoring, more_vars>>

(***************************************************************************)
(* AgenticGraphRAGSystem: initialize, start, shutdown                      *)
(***************************************************************************)
\* the components shutdown cleans up, in its order
Components == <<"notification_manager", "kg_agent", "a2a_server">>

NoCleanups == [c \in Range(Components) |-> 0]

\* the KnowledgeGraphAgent the server makes in its initialize: whether its
\* MCPToolset was made, and how often that toolset was closed
NoOwnAgent == [toolset |-> None, closes |-> 0]

\* AgenticGraphRAGSystem() with its AgenticGraphRAGServer().  The server's
\* kg_agent is None, an agent of its own ("own"), or the system's agent.
\* ops are the calls made on the system so far.
NewSystem ==
    [initialized |-> FALSE, running |-> FALSE, a2a_kg_agent |-> None, a2a_app |-> None,
     own |-> NoOwnAgent, ops |-> <<>>, calls |-> 0,
     last |-> [op |-> "none", path |-> "none", failed |-> {}, cleanups |-> NoCleanups]]

LifecycleIdle == kg = NewAgent /\ system = NewSystem

\* how AgenticGraphRAGServer.initialize ends
ServerInitOutcomes == {"returned", "import_raised", "agent_raised", "to_a2a_raised"}

\* initialize(): False if the configuration is invalid or a step raises
SystemInitialize ==
    /\ system.calls < MaxSystemCalls
    /\ \E config_valid \in BOOLEAN, fail_at \in Range(InitSteps) \cup {"none"},
          server \in ServerInitOutcomes, own_fails_at \in {"toolset", "agent"} :
          LET agent == IF config_valid THEN kg_initialize(kg, fail_at) ELSE kg
              server_reached == config_valid /\ fail_at = "none"
              done == server_reached /\ server = "returned"
              \* the server's own agent has a toolset unless MCPToolset raised
              own_toolset == IF server = "agent_raised" /\ own_fails_at = "toolset"
                             THEN None ELSE "set"
          IN /\ kg' = agent
             /\ system' =
                  [system EXCEPT
                     !.calls = @ + 1,
                     !.ops = Append(@, "initialize"),
                     !.own = IF server_reached /\ server # "import_raised"
                             THEN [toolset |-> own_toolset, closes |-> 0] ELSE @,
                     !.a2a_kg_agent = IF done THEN "system"
                                      ELSE IF server_reached /\ server # "import_raised"
                                      THEN "own" ELSE @,
                     !.a2a_app = IF done THEN "set" ELSE @,
                     !.initialized = IF done THEN TRUE ELSE @,
                     !.last = [op |-> "initialize",
                               path |-> IF done THEN "true" ELSE "false",
                               failed |-> {}, cleanups |-> NoCleanups]]
    /\ UNCHANGED <<det_vars, nm_vars, pc_vars, ch_vars, scoring, more_vars>>

\* start() on an initialized system, up to its wait for the shutdown event
SystemStart ==
    /\ system.calls < MaxSystemCalls
    /\ system.initialized /\ ~system.running
    /\ system' = [system EXCEPT
                    !.calls = @ + 1,
                    !.ops = Append(@, "start"),
                    !.running = TRUE,
                    !.last = [op |-> "start", path |-> "waiting",
                              failed |-> {}, cleanups |-> NoCleanups]]
    /\ UNCHANGED <<kg, det_vars, nm_vars, pc_vars, ch_vars, scoring, more_vars>>

\* the components a shutdown gets to: those before the first one whose
\* cleanup raises, and that one
ReachedBy(failed) ==
    {Components[i] : i \in {j \in 1..Len(Components) :
                               \A k \in 1..(j - 1) : Components[k] \notin failed}}

\* shutdown(): failed are the components whose cleanup raises when called
\* (the system's components are attributes that the tests replace).  The
\* server's shutdown cleans up the server's kg_agent.
SystemShutdown ==
    /\ system.calls < MaxSystemCalls
    /\ \E failed \in SUBSET Range(Components) :
          LET cleaned == ReachedBy(failed) \ failed
              by_system == IF "kg_agent" \in cleaned THEN 1 ELSE 0
              by_server == IF "a2a_server" \in cleaned /\ system.a2a_kg_agent = "system"
                           THEN 1 ELSE 0
              once == IF by_system + by_server >= 1 THEN kg_cleanup(kg) ELSE kg
              twice == IF by_system + by_server = 2 THEN kg_cleanup(once) ELSE once
          IN /\ kg' = twice
             /\ system' =
                  [system EXCEPT
                     !.calls = @ + 1,
                     !.ops = Append(@, "shutdown"),
                     !.own = IF /\ "a2a_server" \in cleaned
                                /\ system.a2a_kg_agent = "own"
                                /\ system.own.toolset # None
                             THEN [@ EXCEPT !.closes = @ + 1] ELSE @,
                     !.running = FALSE,
                     !.last = [op |-> "shutdown", path |-> "returned", failed |-> failed,
                               cleanups |->
                                   [c \in Range(Components) |->
                                       IF c = "kg_agent" THEN by_system + by_server
                                       ELSE IF c \in cleaned THEN 1 ELSE 0]]]
    /\ UNCHANGED <<det_vars, nm_vars, pc_vars, ch_vars, scoring, more_vars>>

LifecycleNext ==
    \/ KGInitialize
    \/ KGCleanup
    \/ KGProcessData
    \/ KGSearchKnowledge
    \/ KGListKnowledgeData
    \/ SystemInitialize
    \/ SystemStart
    \/ SystemShutdown

(***************************************************************************)
(* AgenticGraphRAGSystem.process_data                                      *)
(***************************************************************************)
MaxPipelineCalls == 1

\* the request's options: none, a notify_threshold, detection switched off
\* (False is written 0)
PipelineOptions ==
    { <<>>,
      <<Opt("notify_threshold", 500)>>,
      <<Opt("notify_threshold", 900)>>,
      <<Opt("detect_connections", 0)>> }

\* what the extraction pipeline returns as extraction_result.facts
PipelineFacts == {<<>>, <<FactA, FactB>>, <<FactB, FactB>>, <<FactC, FactC>>}

IdlePipeline ==
    [pc |-> "idle", calls |-> 0, options |-> <<>>, status |-> "none", detected |-> FALSE,
     connections |-> <<>>, high_relevance |-> <<>>, notified |-> FALSE,
     notifications_sent |-> 0]

PipelineIdle == pipeline = IdlePipeline

\* process_data(data) up to its await of process_connections, or to its
\* end: the facts are extracted, kg_agent.process_data stores them (it
\* raises on an agent that is not initialized), detect_connections runs
\* with the request's options, and a non-empty high-relevance list is
\* handed to process_connections.
SystemProcessData ==
    /\ pipeline.pc = "idle" /\ pipeline.calls < MaxPipelineCalls
    /\ proc.pc = "idle" /\ send.pc = "idle"
    /\ \E new_facts \in PipelineFacts, options \in PipelineOptions, elapsed \in Elapsed,
          body_fails \in BOOLEAN :
          LET called == [IdlePipeline EXCEPT !.calls = pipeline.calls + 1,
                                             !.options = options]
              run == detect_connections(new_facts, KnowledgeSample, options, elapsed)
              high == run.result.high_relevance_connections
          IN /\ kg' = kg_process_data(kg, body_fails, 0)
             /\ IF ~kg.initialized
                THEN /\ pipeline' = [called EXCEPT !.pc = "done", !.status = "error"]
                     /\ UNCHANGED <<det_vars, proc>>
                ELSE IF DictGet(options, "detect_connections", 1) = 0
                THEN /\ pipeline' = [called EXCEPT !.pc = "done", !.status = "success"]
                     /\ UNCHANGED <<det_vars, proc>>
                ELSE /\ Detect(new_facts, KnowledgeSample, options, elapsed)
                     /\ IF high # <<>>
                        THEN /\ proc' = process_connections(high)
                             /\ pipeline' = [called EXCEPT !.pc = "notify",
                                                           !.detected = TRUE,
                                                           !.connections = run.result.connections,
                                                           !.high_relevance = high,
                                                           !.notified = TRUE]
                        ELSE /\ proc' = proc
                             /\ pipeline' = [called EXCEPT !.pc = "done",
                                                           !.status = "success",
                                                           !.detected = TRUE,
                                                           !.connections = run.result.connections]
    /\ UNCHANGED <<nm_threshold, nm_call, nm_vars, ch_vars, scoring, system, console, ctor>>

\* process_connections has returned: its count is added and the result built
SystemProcessDataReturn ==
    /\ pipeline.pc = "notify"
    /\ proc.pc = "idle"
    /\ pipeline' = [pipeline EXCEPT
                       !.pc = "done",
                       !.status = "success",
                       !.notifications_sent = proc.result.notifications_sent]
    /\ UNCHANGED <<det_vars, nm_vars, pc_vars, ch_vars, scoring, life_vars, console, ctor>>

(***************************************************************************)
(* The constructors' threshold arguments                                   *)
(***************************************************************************)
\* no record is kept of the argument
NotRecorded == 0 - 3

CtorIdle == ctor = [detector |-> NotRecorded, manager |-> NotRecorded]

\* ConnectionDetectionSystem(threshold=a) and NotificationManager(threshold=b)
Construct(a, b) ==
    /\ DetInitWith(a)
    /\ ManagerInitWith(b)
    /\ ctor = [detector |-> a, manager |-> b]

RestIdle == CtorIdle /\ PipelineIdle

(***************************************************************************)
(* Specifications                                                          *)
(***************************************************************************)
\* The components a specification leaves alone stay as constructed.
ManagerIdle == ManagerInitWith(Null)

ChannelsIdle == WebhookIdle /\ LogfileIdle /\ ConsoleIdle

RegistryIdle == NMInitWith({"console", "file"})

\* The detector alone, beside a manager under the default configuration.
DetSpecInit ==
    DetInit /\ RegistryIdle /\ ManagerIdle /\ ChannelsIdle /\ ScoringIdle /\ LifecycleIdle /\ RestIdle

SpecDetector == DetSpecInit /\ [][DetNext]_vars

\* The manager, its registry changed only between sends.
NotifyInit ==
    /\ NMInit /\ DetInitWith(Null)
    /\ ManagerIdle /\ ChannelsIdle /\ ScoringIdle /\ LifecycleIdle /\ RestIdle

NotifyNext ==
    \/ SendStart
    \/ IterNext
    \/ ConsoleDeliver
    \/ FileDeliver
    \/ CustomDeliver
    \/ WebhookPost
    \/ WebhookWake
    \/ SendFinish
    \/ AddChannel
    \/ RemoveChannel

SpecNotify == NotifyInit /\ [][NotifyNext]_vars

\* The manager, with other tasks changing the registry also while a send is
\* suspended in a channel's delivery.
NotifyNextConcurrent ==
    \/ NotifyNext
    \/ AddChannelDuringSend
    \/ RemoveChannelDuringSend

SpecNotifyConcurrent == NotifyInit /\ [][NotifyNextConcurrent]_vars

\* A long run of sends through the console channel alone.
HistoryInit ==
    /\ NMInitWith({"console"}) /\ DetInitWith(Null)
    /\ ManagerIdle /\ ChannelsIdle /\ ScoringIdle /\ LifecycleIdle /\ RestIdle

HistoryNext == SendStartLong \/ IterNext \/ ConsoleDeliver \/ SendFinish

SpecHistory == HistoryInit /\ [][HistoryNext]_vars

\* process_connections, its sends, and the calls other tasks make while a
\* send is suspended.
ProcessInit ==
    /\ NMInit /\ ManagerInit /\ DetInitWith(Null)
    /\ ChannelsIdle /\ ScoringIdle /\ LifecycleIdle /\ RestIdle

ProcessNext ==
    \/ ProcessConnections
    \/ ProcessSend
    \/ ProcessResume
    \/ ProcessReturn
    \/ IterNext
    \/ ConsoleDeliver
    \/ FileDeliver
    \/ CustomDeliver
    \/ WebhookPost
    \/ WebhookWake
    \/ SendFinish
    \/ AddChannelDuringSend
    \/ RemoveChannelDuringSend
    \/ ManagerSetThreshold

SpecProcess == ProcessInit /\ [][ProcessNext]_vars

\* set_threshold on the detector and on the manager, each beside one
\* detection and one send.
ThresholdInit ==
    /\ DetInit /\ NMInitWith({"console"}) /\ ManagerInit
    /\ ChannelsIdle /\ ScoringIdle /\ LifecycleIdle /\ RestIdle

FirstDetection == stats.total_detections = 0 /\ DetectConnections

FirstSend == nm_calls.true + nm_calls.false + nm_calls.raised = 0 /\ SendStart

ThresholdNext ==
    \/ FirstDetection
    \/ ClearCache
    \/ SetThreshold
    \/ ManagerSetThreshold
    \/ FirstSend
    \/ IterNext
    \/ ConsoleDeliver
    \/ SendFinish

SpecThreshold == ThresholdInit /\ [][ThresholdNext]_vars

\* One send of a webhook channel.  The POST returns or raises and the sleep
\* ends: the event loop runs the send whenever it can go on.
WebhookSpecInit ==
    /\ WebhookInit /\ LogfileIdle /\ ConsoleIdle /\ DetInitWith(Null) /\ RegistryIdle
    /\ ManagerIdle /\ ScoringIdle /\ LifecycleIdle /\ RestIdle

WebhookSpecNext == WebhookNext \/ WebhookTestConnection

SpecWebhook == WebhookSpecInit /\ [][WebhookSpecNext]_vars /\ WF_vars(WebhookNext)

\* The sends of a file channel.
FileSpecInit ==
    /\ LogfileInit /\ WebhookIdle /\ ConsoleIdle /\ DetInitWith(Null) /\ RegistryIdle
    /\ ManagerIdle /\ ScoringIdle /\ LifecycleIdle /\ RestIdle

SpecFile == FileSpecInit /\ [][FileSend]_vars

\* The scorers on every input of the bounded sets.
ScoringSpecInit ==
    /\ ScoringInit /\ DetInitWith(Null) /\ RegistryIdle
    /\ ManagerIdle /\ ChannelsIdle /\ LifecycleIdle /\ RestIdle

SpecScoring == ScoringSpecInit /\ [][Score]_vars

\* The agent's and the system's lifecycle calls in any order.
LifecycleInit ==
    /\ LifecycleIdle /\ RestIdle /\ DetInitWith(Null) /\ RegistryIdle
    /\ ManagerIdle /\ ChannelsIdle /\ ScoringIdle

SpecLifecycle == LifecycleInit /\ [][LifecycleNext]_vars

\* A channel of each kind.  The channels share no state, so each is run
\* beside the other two as constructed.
ChannelsInit ==
    /\ WebhookInit /\ LogfileInit /\ ConsoleIdle
    /\ DetInitWith(Null) /\ RegistryIdle /\ ManagerIdle /\ ScoringIdle
    /\ LifecycleIdle /\ RestIdle

ConsoleUnused == console = ConsoleChannel

WebhookUnused == wh.pc = "idle"

LogfileUnused == logfile.sends = 0

ConsoleAlone == WebhookUnused /\ LogfileUnused /\ ConsoleSend

WebhookAlone == ConsoleUnused /\ LogfileUnused /\ WebhookNext

LogfileAlone == ConsoleUnused /\ WebhookUnused /\ FileSend

ChannelsNext == ConsoleAlone \/ WebhookAlone \/ LogfileAlone

SpecChannels == ChannelsInit /\ [][ChannelsNext]_vars

\* A detector and a manager constructed with every threshold argument,
\* then one detection and one process_connections.
ConstructInit ==
    /\ \E a \in CtorThresholdArgs, b \in CtorThresholdArgs : Construct(a, b)
    /\ NMInitWith({"console"})
    /\ ChannelsIdle /\ ScoringIdle /\ LifecycleIdle /\ PipelineIdle

ConstructNext ==
    \/ FirstDetection
    \/ ProcessConnections
    \/ ProcessSend
    \/ ProcessResume
    \/ ProcessReturn
    \/ IterNext
    \/ ConsoleDeliver
    \/ SendFinish

SpecConstruct == ConstructInit /\ [][ConstructNext]_vars

\* One process_data of the system, on an agent that is initialized or not.
\* The detector and the manager are the modules' instances, constructed
\* without arguments.
PipelineInit ==
    /\ DetInitWith(Null) /\ ManagerInitWith(Null) /\ NMInitWith({"console"})
    /\ kg \in {NewAgent, kg_initialize(NewAgent, "none")}
    /\ system = NewSystem
    /\ ChannelsIdle /\ ScoringIdle /\ RestIdle

PipelineNext ==
    \/ SystemProcessData
    \/ ProcessSend
    \/ ProcessResume
    \/ ProcessReturn
    \/ IterNext
    \/ ConsoleDeliver
    \/ SendFinish
    \/ SystemProcessDataReturn

SpecPipeline == PipelineInit /\ [][PipelineNext]_vars

(***************************************************************************)
(* Properties of the detector                                              *)
(***************************************************************************)
Detected == det_call.op = "detect_connections"

Returned == Detected /\ det_call.path # "raised"

\* h is c with some elements left out, the others in c's order
RECURSIVE IsSubList(_, _)
IsSubList(h, c) ==
    IF h = <<>> THEN TRUE
    ELSE IF c = <<>> THEN FALSE
    ELSE IF Head(h) = Head(c) THEN IsSubList(Tail(h), Tail(c))
    ELSE IsSubList(h, Tail(c))

\* C1: a cache hit returns the connections a fresh scoring run on the
\* request's own facts and corpus yields, so requests whose fact lists
\* differ in content never share a cache entry.
C1_CacheHitIsFreshScoring ==
    (Detected /\ det_call.path = "hit") =>
        det_call.result.connections =
            simulate_connection_detection(det_call.req.new_facts,
                                          det_call.req.existing_knowledge)

\* C2: a request that was answered "completed" before, with no clear_cache
\* since, is answered from the cache: the same result content, cached_results
\* one higher, no scoring run.
C2_RepeatIsServedFromCache ==
    (Detected /\ det_call.earlier # {}) =>
        /\ det_call.path = "hit"
        /\ \A e \in det_call.earlier : det_call.result = e
        /\ stats.cached_results = det_call.before.cached_results + 1

C2_Witness ==
    /\ Detected
    /\ det_call.earlier # {}
    /\ det_call.result.connections # <<>>
    /\ det_call.threshold # det_call.result.threshold_used

\* C3: every returned result, computed, cached or failed, has
\* total_connections = len(connections), and its high-relevance list is the
\* connections scoring at least threshold_used, in the order of connections.
C3_ResultWellFormed ==
    Returned =>
        LET r == det_call.result
            AtLeast(conn) == conn.score >= r.threshold_used
        IN /\ r.total_connections = Len(r.connections)
           /\ IsSubList(r.high_relevance_connections, r.connections)
           /\ \A i \in 1..Len(r.high_relevance_connections) :
                  r.high_relevance_connections[i].score >= r.threshold_used
           /\ \A i \in 1..Len(r.connections) :
                  r.connections[i].score >= r.threshold_used =>
                      r.connections[i] \in Range(r.high_relevance_connections)
           /\ Len(r.high_relevance_connections) =
                  Cardinality({i \in 1..Len(r.connections) : AtLeast(r.connections[i])})

\* a computed result with a connection scoring exactly threshold_used, one
\* above it and one below it
C3_Witness ==
    /\ Returned
    /\ det_call.path = "computed"
    /\ \E i, j, k \in 1..Len(det_call.result.connections) :
          /\ det_call.result.connections[i].score = det_call.result.threshold_used
          /\ det_call.result.connections[j].score > det_call.result.threshold_used
          /\ det_call.result.connections[k].score < det_call.result.threshold_used

\* C8: detect_connections never raises; a failed run returns status failed
\* with both lists empty, any other run status completed.
C8_NeverRaises ==
    Detected =>
        /\ det_call.path # "raised"
        /\ det_call.result.status \in {"completed", "failed"}
        /\ det_call.result.status = "failed" =>
               /\ det_call.result.connections = <<>>
               /\ det_call.result.high_relevance_connections = <<>>

\* C9: a completed result holds at most max_connections connections
\* (options max_connections, default 50).
C9_AtMostMaxConnections ==
    (Returned /\ det_call.result.status = "completed") =>
        Len(det_call.result.connections) <=
            DictGet(OptionsOrEmpty(det_call.req.options), "max_connections",
                    DefaultMaxConnections)

\* C21: every result detect_connections returns, computed or served from
\* the cache, has threshold_used equal to options.threshold when the caller
\* gave one and to the detector's threshold at the time of the call
\* otherwise.
C21_ThresholdUsedIsCallersOrCurrent ==
    Returned =>
        det_call.result.threshold_used =
            DictGet(OptionsOrEmpty(det_call.req.options), "threshold", det_call.threshold)

\* C22: the run counters change only when a run completes scoring, which
\* adds 1 to total_detections, len(connections) to connections_found and
\* len(high_relevance_connections) to high_relevance_connections; a cache
\* hit changes cached_results only.
C22_CountersChangeOnCompletedRunsOnly ==
    Detected =>
        LET before == det_call.before
            result == det_call.result
        IN IF det_call.path = "computed"
           THEN /\ stats.total_detections = before.total_detections + 1
                /\ stats.connections_found =
                       before.connections_found + Len(result.connections)
                /\ stats.high_relevance_connections =
                       before.high_relevance_connections
                       + Len(result.high_relevance_connections)
                /\ stats.cached_results = before.cached_results
           ELSE IF det_call.path = "hit"
           THEN stats = [before EXCEPT !.cached_results = @ + 1]
           ELSE stats = before

\* C23: average_processing_time is the arithmetic mean of the processing
\* times of exactly the runs that completed scoring: the average times the
\* number of those runs is the sum of their times.
C23_AverageIsMeanOfCompletedRuns ==
    stats.average_processing_time.num * computed.runs
        = computed.time * stats.average_processing_time.den

(***************************************************************************)
(* Properties of the notification manager                                  *)
(***************************************************************************)
\* a send_notification call is over
Completed == send.pc = "idle" /\ send.outcome # "none"

\* the deliveries of the send that ended with the given result
Deliveries(result) == {i \in 1..Len(send.log) : send.log[i].result = result}

\* the deliveries of the send made to the given channel
DeliveriesTo(name) == {i \in 1..Len(send.log) : send.log[i].channel = name}

\* C4: send_notification returns true exactly when some channel's send
\* returned true for the event; with no channel registered it returns false
\* and does not raise.
C4_TrueIffSomeChannelSucceeded ==
    /\ (Completed /\ send.outcome \in {"true", "false"}) =>
           (send.outcome = "true" <=> Deliveries("true") # {})
    /\ (Completed /\ send.at_start = <<>>) => send.outcome = "false"

\* a send that returned true although one of its channels failed
C4_Witness ==
    /\ Completed
    /\ send.outcome = "true"
    /\ Deliveries("false") # {}

\* C5: within one send_notification each registered channel's send is
\* invoked exactly once, whatever the others returned or raised, and a
\* channel that returned false or raised is not counted as a success.
C5_EveryChannelAttemptedOnce ==
    Completed =>
        /\ \A name \in Range(send.at_start) : Cardinality(DeliveriesTo(name)) = 1
        /\ \A i \in 1..Len(send.log) : send.log[i].channel \in Range(send.at_start)
        /\ send.success_count = Cardinality(Deliveries("true"))

\* a send in which a channel raised, another returned false, and a channel
\* was still attempted after the one that raised
C5_Witness ==
    /\ Completed
    /\ Deliveries("false") # {}
    /\ \E i \in Deliveries("raised") : i < Len(send.log)

\* C6: the deliveries of one send run concurrently, so while the webhook
\* channel sleeps in its retry backoff every other registered channel's
\* delivery has already started.
C6_BackoffDelaysNoChannel ==
    (send.pc = "deliver" /\ send.cur = "webhook" /\ send.phase = "backoff") =>
        \A name \in LiveNames(channels) :
            name = send.cur \/ DeliveriesTo(name) # {}

\* C7: a send during which add_channel or remove_channel ran still returns a
\* boolean and updates the sent/failed counters exactly once.
C7_RegistryChangeDuringSendIsSafe ==
    (Completed /\ send.mutated) =>
        /\ send.outcome \in {"true", "false"}
        /\ nm_stats.notifications_sent + nm_stats.notifications_failed =
               send.before.notifications_sent + send.before.notifications_failed + 1

\* C10: notifications_sent is the number of calls that returned true and
\* notifications_failed the number that returned false, calls made with no
\* channel registered included.
C10_CountersMatchCalls ==
    send.pc = "idle" =>
        /\ nm_stats.notifications_sent = nm_calls.true
        /\ nm_stats.notifications_failed = nm_calls.false

(***************************************************************************)
(* Properties of the history and of process_connections                    *)
(***************************************************************************)
\* the last n elements of s
LastN(s, n) == SubSeq(s, Len(s) - n + 1, Len(s))

\* C11: notification_history never holds more than 100 entries; it holds,
\* oldest first, the most recent min(100, notifications_sent) sends in which
\* some channel returned true, and no send that failed on every channel;
\* every entry has 1 <= channels_sent <= total_channels.
C11_HistoryIsRecentSuccesses ==
    LET kept == Min(100, nm_stats.notifications_sent)
    IN /\ Len(notification_history) <= 100
       /\ Len(notification_history) = kept
       /\ Len(succeeded) >= kept
       /\ \A i \in 1..kept :
             LET entry == notification_history[i]
                 sent == LastN(succeeded, kept)[i]
             IN /\ entry.timestamp = sent.timestamp
                /\ entry.channels_sent = sent.successes
                /\ entry.total_channels = sent.registered
                /\ 1 <= entry.channels_sent
                /\ entry.channels_sent <= entry.total_channels

\* more than a hundred sends succeeded, after sends that failed, and the
\* oldest successes are gone from the full history
C11_Witness ==
    /\ send.pc = "idle"
    /\ Len(notification_history) = 100
    /\ nm_stats.notifications_sent > 100
    /\ nm_stats.notifications_failed > 0
    /\ notification_history[1].timestamp > succeeded[1].timestamp

\* a process_connections call has returned
ProcessReturned == proc.pc = "idle" /\ proc.result.status # "none"

\* C12: process_connections calls send_notification once, in input order,
\* for each connection scoring at least the manager's threshold and for no
\* other; the event's severity is critical from 0.9, warning from 0.8, info
\* below; the returned notifications_sent counts the sends that returned
\* true, and notifications_sent <= high_relevance_connections <=
\* connections_processed in the returned result.
C12_OneSendPerQualifyingConnection ==
    ProcessReturned =>
        LET r == proc.result
            Qualifies(c) == c.score >= proc.threshold
            due == SelectSeq(proc.connections, Qualifies)
        IN /\ Len(proc.sends) = Len(due)
           /\ \A i \in 1..Len(due) :
                 /\ proc.sends[i].event.data = due[i]
                 /\ proc.sends[i].event.severity =
                        (IF due[i].score >= 900 THEN "critical"
                         ELSE IF due[i].score >= 800 THEN "warning" ELSE "info")
           /\ r.notifications_sent =
                  Cardinality({i \in 1..Len(proc.sends) : proc.sends[i].result = "true"})
           /\ r.high_relevance_connections # Absent
           /\ r.notifications_sent <= r.high_relevance_connections
           /\ r.high_relevance_connections <= r.connections_processed

(***************************************************************************)
(* Properties of the webhook and file channels                             *)
(***************************************************************************)
\* the POSTs of the webhook send, in order
Posts ==
    LET IsPost(e) == e.kind = "post" IN SelectSeq(wh.trace, IsPost)

\* how many POSTs failed with a network error before any other outcome
LeadingErrors ==
    Cardinality({i \in 1..Len(Posts) :
                    \A j \in 1..i : Posts[j].response = "RequestError"})

C13_Attempts ==
    LET n == Len(Posts)
        f == LeadingErrors
        r == wh.retries
    IN /\ n <= r
       \* the first f POSTs failed, none was accepted yet
       /\ (f = n /\ f < r) => wh.pc # "done"
       \* the first f POSTs failed and the next was accepted
       /\ (n = f + 1 /\ Posts[n].response = "200") =>
              /\ f < r
              /\ wh.pc = "done" /\ wh.result = "true"
       \* r POSTs failed
       /\ (f = n /\ wh.pc = "done") => (wh.result = "false" /\ n = r)

\* C13: with retries = r and a server whose first f POSTs fail with a
\* network error and whose next POST is accepted, a webhook send returns
\* true after f+1 attempts if f < r and false after r attempts otherwise; it
\* always ends and never makes more than r attempts.
C13_RetriesAreBounded == []C13_Attempts /\ <>(wh.pc = "done")

\* retries = 3, two network errors, then a POST that is accepted
C13_Witness ==
    /\ wh.pc = "done" /\ wh.result = "true" /\ wh.retries = 3
    /\ Len(Posts) = 3 /\ LeadingErrors = 2

\* C14: between two consecutive POSTs of one webhook send the channel sleeps
\* 2^attempt seconds, attempt being the 0-based index of the POST that just
\* failed; it does not sleep after the last POST, whose failure makes the
\* send return false.
C14_BackoffBetweenAttempts ==
    LET t == wh.trace
    IN /\ \A i \in 1..(Len(t) - 1) :
             t[i].kind = "post" =>
                 /\ t[i + 1].kind = "sleep"
                 /\ t[i + 1].seconds = 2 ^ t[i].attempt
       /\ (wh.pc = "done" /\ t # <<>>) =>
             /\ t[Len(t)].kind = "post"
             /\ t[Len(t)].response # "200" => wh.result = "false"

\* C15: when the record of a file send would take the active file past the
\* ceiling, the file is rotated once, before the write, and the record is
\* the first of a new file.
C15_RotationBeforeExceedingWrite ==
    LET l == logfile.last
    IN (/\ l.result = "true"
        /\ l.size_before > 0
        /\ l.size_before + l.size > logfile.max_size_bytes
        /\ l.rotation # "failed")
       => (/\ l.rotation = "done"
           /\ logfile.active = <<l.size>>)

(***************************************************************************)
(* Properties of set_threshold                                             *)
(***************************************************************************)
\* what a step that is a set_threshold call does
C16_SetThresholdStep ==
    /\ (det_call' # det_call /\ det_call'.op = "set_threshold") =>
          /\ IF 0 <= det_call'.arg /\ det_call'.arg <= 1000
             THEN threshold' = det_call'.arg /\ det_call'.path = "returned"
             ELSE threshold' = threshold /\ det_call'.path = "raised"
          /\ UNCHANGED <<connection_cache, stats, nm_vars, nm_threshold>>
    /\ (nm_call' # nm_call /\ nm_call'.op = "set_threshold") =>
          /\ IF 0 <= nm_call'.arg /\ nm_call'.arg <= 1000
             THEN nm_threshold' = nm_call'.arg /\ nm_call'.path = "returned"
             ELSE nm_threshold' = nm_threshold /\ nm_call'.path = "raised"
          /\ UNCHANGED <<channels, nm_stats, notification_history,
                         threshold, connection_cache, stats>>

\* C16: set_threshold(t), on the detector and on the manager, raises and
\* leaves the threshold as it was for t outside [0, 1], sets the threshold to
\* t for every t in [0, 1], both ends included, and changes no other state
\* (cache, statistics, channels, history).
C16_SetThresholdOnlySetsThreshold == [][C16_SetThresholdStep]_vars

\* after a detection and a send: the detector has rejected 1.5 and the
\* manager has taken 0.0, with a cache and a history to leave alone
C16_Witness ==
    /\ det_call.op = "set_threshold" /\ det_call.arg = 1500 /\ det_call.path = "raised"
    /\ nm_call.op = "set_threshold" /\ nm_call.arg = 0 /\ nm_threshold = 0
    /\ DOMAIN connection_cache # {}
    /\ notification_history # <<>>

(***************************************************************************)
(* Properties of the scorers                                               *)
(***************************************************************************)
\* the connections of one kind, in the order of the result
OfKind(kind) ==
    LET IsKind(c) == c.connection_type = kind IN SelectSeq(scoring.connections, IsKind)

\* the pairs i < j of input facts, and the entities a pair shares
FactPairs ==
    {p \in (1..Len(scoring.new_facts)) \X (1..Len(scoring.new_facts)) : p[1] < p[2]}

SharedBy(p) ==
    Range(scoring.new_facts[p[1]].entities) \cap Range(scoring.new_facts[p[2]].entities)

\* the connection c is one from the first fact of the pair to the second
FromPair(c, p) ==
    /\ c.source_fact = scoring.new_facts[p[1]].fact
    /\ c.target_fact = scoring.new_facts[p[2]].fact
    /\ c.evidence = << [prefix |-> "Both facts mention: ", joined |-> SharedBy(p),
                        at_most |-> Cardinality(SharedBy(p))] >>

\* two pairs of the same two texts sharing the same entities
SamePair(q, p) ==
    /\ scoring.new_facts[q[1]].fact = scoring.new_facts[p[1]].fact
    /\ scoring.new_facts[q[2]].fact = scoring.new_facts[p[2]].fact
    /\ SharedBy(q) = SharedBy(p)

\* x is the float the exact value (in thousandths) rounds to: the sum
\* 0.7 + 0.1k is within one unit in the last place of it
SameFloat(x, exact) == x = exact \/ x = exact - 1

\* C17: for every pair i < j of input facts the result holds exactly one
\* factual connection from fact i to fact j if they share k >= 1 entities and
\* none if they share none; its score is min(1.0, 0.7 + 0.1k) and its
\* evidence the one string "Both facts mention: " with the shared entities.
C17_EntityOverlap ==
    scoring.done =>
        LET factual == OfKind("factual")
            sharing == {p \in FactPairs : SharedBy(p) # {}}
        IN /\ Len(factual) = Cardinality(sharing)
           /\ \A n \in 1..Len(factual) : \E p \in sharing : FromPair(factual[n], p)
           /\ \A p \in sharing :
                 /\ Cardinality({n \in 1..Len(factual) : FromPair(factual[n], p)}) =
                        Cardinality({q \in sharing : SamePair(q, p)})
                 /\ \A n \in 1..Len(factual) :
                       FromPair(factual[n], p) =>
                           SameFloat(factual[n].score,
                                     Min(1000, 700 + 100 * Cardinality(SharedBy(p))))

\* a pair sharing four entities, scored 1.0, beside a pair sharing none
C17_Witness ==
    /\ scoring.done
    /\ \E p \in FactPairs : Cardinality(SharedBy(p)) = 4
    /\ \E p \in FactPairs : SharedBy(p) = {}
    /\ \E n \in 1..Len(OfKind("factual")) : OfKind("factual")[n].score = 1000

\* m for an input fact: the distinct lowercase tokens it shares with the
\* existing knowledge, stop words left out
SharedTokens(fact) ==
    Cardinality((Words(fact.fact) \cap Words(scoring.existing_knowledge)) \ stop_words)

TemporalAt == {i \in 1..Len(scoring.new_facts) : IsTemporal(scoring.new_facts[i])}

\* the first position of a set of positions
First(positions) == CHOOSE i \in positions : \A j \in positions : i <= j

\* C24: a result holds exactly one temporal connection, scored 0.75, from
\* the first to the second temporal fact in input order, if the input has at
\* least two facts of kind temporal, however many, and none otherwise; it
\* comes after all entity-overlap and lexical connections.
C24_OneTemporalConnection ==
    scoring.done =>
        LET temporal == OfKind("temporal")
            result == scoring.connections
        IN IF Cardinality(TemporalAt) >= 2
           THEN LET first == First(TemporalAt)
                    second == First(TemporalAt \ {first})
                IN /\ Len(temporal) = 1
                   /\ temporal[1].score = 750
                   /\ temporal[1].source_fact = scoring.new_facts[first].fact
                   /\ temporal[1].target_fact = scoring.new_facts[second].fact
                   /\ result[Len(result)] = temporal[1]
                   /\ Len(result) = Len(OfKind("factual")) + Len(OfKind("semantic")) + 1
           ELSE temporal = <<>>

\* three temporal facts, the first two of them different, with
\* entity-overlap connections in the result
C24_Witness ==
    /\ scoring.done
    /\ Cardinality(TemporalAt) = 3
    /\ scoring.new_facts[1] # scoring.new_facts[2]
    /\ OfKind("factual") # <<>>
    /\ Len(OfKind("temporal")) = 1

(***************************************************************************)
(* Properties of the lifecycle                                             *)
(***************************************************************************)
\* C19: after an initialize that raised the agent is not initialized; after
\* cleanup, which does not raise, it is not initialized; process_data,
\* search_knowledge and list_knowledge_data raise on an agent that is not
\* initialized and leave the statistics as they were.
C19_AgentLifecycle ==
    /\ (kg.last.op = "initialize" /\ kg.last.path = "raised") => ~kg.initialized
    /\ kg.last.op = "cleanup" => (~kg.initialized /\ kg.last.path = "returned")
    /\ (/\ kg.last.op \in {"process_data", "search_knowledge", "list_knowledge_data"}
        /\ ~kg.last.initialized)
       => (/\ kg.last.path = "raised"
           /\ kg.processing_stats = kg.last.processing_stats)

\* C20: shutdown returns without raising and leaves running false whichever
\* cleanups fail; when none fails, each of the three components is cleaned
\* up exactly once.
C20_ShutdownCleansUpOnce ==
    system.last.op = "shutdown" =>
        /\ system.last.path = "returned"
        /\ ~system.running
        /\ system.last.failed = {} =>
               \A c \in Range(Components) : system.last.cleanups[c] = 1

(***************************************************************************)
(* Properties of the channels' sends                                       *)
(***************************************************************************)
\* C25: no channel's send raises to its caller; the console, file and
\* webhook channels return false when a step of the send fails; a failed
\* rotation does not keep the file channel from attempting the append, and
\* the send returns true if the append succeeds.
C25_ChannelsReturnFalseOnFailure ==
    /\ console.last.result \in {"none", "true", "false"}
    /\ console.last.fails_at # "none" => console.last.result = "false"
    /\ wh.pc = "done" =>
          /\ wh.result \in {"true", "false"}
          /\ (Posts = <<>> \/ ~Accepted(Posts[Len(Posts)].response)) => wh.result = "false"
    /\ logfile.last.result \in {"none", "true", "false"}
    /\ logfile.sends > 0 =>
          (logfile.last.result = "true" <=> ~logfile.last.write_failed)

\* a file send whose rotation failed and whose append succeeded
C25_Witness ==
    /\ logfile.last.rotation = "failed"
    /\ ~logfile.last.write_failed
    /\ logfile.last.result = "true"

\* the status codes 2xx among the responses
Is2xx(response) == response \in {"200", "201", "202", "204"}

\* C26: the webhook channel counts a response as success exactly when its
\* status is 2xx: test_connection returns true for every 2xx response and
\* false for any other response or exception, and a send returns true at
\* the first 2xx response and makes no POST after it.
C26_SuccessIsAny2xx ==
    /\ wh.health.response # "none" =>
          (wh.health.result = "true" <=> Is2xx(wh.health.response))
    /\ \A i \in 1..(Len(Posts) - 1) : ~Is2xx(Posts[i].response)
    /\ (Posts # <<>> /\ Is2xx(Posts[Len(Posts)].response)) =>
          (wh.pc = "done" /\ wh.result = "true")

\* the records the active file and the backups hold
StoredRecords ==
    Len(logfile.active)
    + SumSeq([i \in 1..Len(logfile.backups) |-> Len(logfile.backups[i].records)])

\* C29: no record is lost by rotation: every record whose send returned
\* true is still in the active file or in a backup after any later sends
\* and rotations, two rotations in one second included, and a rotation
\* never overwrites an earlier backup.
C29_NoRecordLostByRotation ==
    /\ StoredRecords = logfile.accepted
    /\ ~logfile.last.overwrote

(***************************************************************************)
(* Properties of the system                                                *)
(***************************************************************************)
\* C27: in process_data the request's options.notify_threshold (0.7 when
\* absent) decides the notifications: one is attempted for a detected
\* connection if and only if its score >= notify_threshold.
C27_NotifyThresholdDecides ==
    (pipeline.pc = "done" /\ pipeline.detected) =>
        LET notify_threshold == DictGet(pipeline.options, "notify_threshold", 700)
            attempted == IF pipeline.notified
                         THEN {proc.sends[i].event.data : i \in 1..Len(proc.sends)}
                         ELSE {}
        IN \A c \in Range(pipeline.connections) :
              c \in attempted <=> c.score >= notify_threshold

\* C28: a detector or manager constructed with an explicit threshold t in
\* [0,1], 0.0 included, has t as its threshold; the configured default is
\* used only when no threshold is given.
C28_ExplicitThresholdIsUsed ==
    /\ threshold = (IF ctor.detector = Null THEN ConfigThreshold ELSE ctor.detector)
    /\ nm_threshold = (IF ctor.manager = Null THEN ConfigThreshold ELSE ctor.manager)
    /\ (Returned /\ ~HasKey(OptionsOrEmpty(det_call.req.options), "threshold")) =>
          det_call.result.threshold_used =
              (IF ctor.detector = Null THEN ConfigThreshold ELSE ctor.detector)
    /\ proc.calls_made > 0 =>
          proc.threshold = (IF ctor.manager = Null THEN ConfigThreshold ELSE ctor.manager)

\* C30: across initialize followed by shutdown, every toolset a
\* KnowledgeGraphAgent opened during the initialization, the system's agent
\* or the agent the server made, is closed exactly once.  It is stated for
\* the shutdowns in which no cleanup raises.
C30_ToolsetsClosedOnce ==
    (/\ system.ops = <<"initialize", "shutdown">>
     /\ kg.calls = 0
     /\ system.last.failed = {}) =>
        /\ kg.toolset # None => kg.closes = 1
        /\ system.own.toolset # None => system.own.closes = 1

====
